---- MODULE Spec2Model ----
(***************************************************************************)
(* Model of lumiwealth_tradier/base.py: the TradierApiBase HTTP client.    *)
(* One instance, one thread.  A call to request/send/delete is followed    *)
(* through its positions: the retry loop (one transport call per           *)
(* iteration), the backoff sleep, the status validation and the decoding   *)
(* of the response.  The transport (the requests library) and the clock    *)
(* are the environment: each transport call either raises a                *)
(* RequestException or returns a response drawn from a small set.          *)
(***************************************************************************)
EXTENDS Integers, Sequences, FiniteSets, TLC

(* ---------------------------------------------------------------------- *)
(* Bounds of the model                                                     *)
(* ---------------------------------------------------------------------- *)
MaxRetriesCap == 3

(* ---------------------------------------------------------------------- *)
(* Python values: every value is a record tagged with its type            *)
(* ---------------------------------------------------------------------- *)
PyNone == [t |-> "None"]

PyStr(s) == [t |-> "str", s |-> s]

PyInt(n) == [t |-> "int", n |-> n]

PyList(items) == [t |-> "list", items |-> items]

PyDict(m) == [t |-> "dict", m |-> m]

NoItems == [k \in {} |-> PyNone]

EmptyDict == PyDict(NoItems)

\* bool(v): the truth value Python gives a value in `if not v` / `if v`
Truthy(v) ==
    CASE v.t = "None" -> FALSE
      [] v.t = "str"  -> v.s # ""
      [] v.t = "int"  -> v.n # 0
      [] v.t = "list" -> Len(v.items) # 0
      [] v.t = "dict" -> DOMAIN v.m # {}

\* sub in s for two str values
IsSubstring(sub, s) ==
    \E i \in 1..(Len(s) - Len(sub) + 1) : SubSeq(s, i, i + Len(sub) - 1) = sub

\* key in v: "yes", "no", or "TypeError" when v is not a container
Contains(key, v) ==
    CASE v.t = "dict" -> IF key \in DOMAIN v.m THEN "yes" ELSE "no"
      [] v.t = "list" -> IF \E i \in 1..Len(v.items) : v.items[i] = PyStr(key)
                         THEN "yes" ELSE "no"
      [] v.t = "str"  -> IF IsSubstring(key, v.s) THEN "yes" ELSE "no"
      [] OTHER        -> "TypeError"

\* v[key] is defined exactly for a dict v that has the key; v[key] on a
\* list or a str with a str key raises TypeError
CanSubscript(v, key) == v.t = "dict" /\ key \in DOMAIN v.m

(* ---------------------------------------------------------------------- *)
(* Module constants and the instance                                       *)
(* ---------------------------------------------------------------------- *)
TRADIER_LIVE_URL == "https://api.tradier.com"

TRADIER_SANDBOX_URL == "https://sandbox.tradier.com"

Tokens == {"tokA", "tokB"}

Accounts == {"acct1"}

\* the instances constructed: a sandbox account and a live account
Instances ==
    {[account_number |-> "acct1", auth_token |-> "tokA", is_paper |-> TRUE],
     [account_number |-> "acct1", auth_token |-> "tokB", is_paper |-> FALSE]}

VARIABLES
    is_paper,          \* self.is_paper
    ACCOUNT_NUMBER,    \* self.ACCOUNT_NUMBER
    AUTH_TOKEN,        \* self.AUTH_TOKEN
    REQUESTS_HEADERS,  \* self.REQUESTS_HEADERS
    pc,                \* position of the thread: idle, loop, backoff, parse, done
    op,                \* the public operation the caller invoked last
    endpoint, params, headers, data, method, max_retries,  \* locals of request
    attempt, successful, r,                                \* locals of request
    calls,             \* transport calls issued by the current call, in order
    results,           \* what each of these transport calls did
    sleeps,            \* sleep(seconds) calls of the current call, in order
    warned,            \* warnings.warn messages of the current call
    outcome,           \* how the current call ended
    url                \* what base_url() returned, when it was the last operation called

vars == <<is_paper, ACCOUNT_NUMBER, AUTH_TOKEN, REQUESTS_HEADERS, pc, op,
          endpoint, params, headers, data, method, max_retries,
          attempt, successful, r, calls, results, sleeps, warned, outcome, url>>

instance == <<is_paper, ACCOUNT_NUMBER, AUTH_TOKEN, REQUESTS_HEADERS>>

locals == <<endpoint, params, headers, data, method, max_retries,
            attempt, successful, r>>

logs == <<calls, results, sleeps, warned>>

DefaultHeaders(token) ==
    PyDict([Authorization |-> PyStr("Bearer " \o token),
            Accept |-> PyStr("application/json")])

\* a resolver with the two hosts exchanged
base_url_of_swapped(paper) == IF paper THEN TRADIER_LIVE_URL ELSE TRADIER_SANDBOX_URL

\* lines 34-37: the host for the mode flag
base_url_of(paper) == IF paper THEN TRADIER_SANDBOX_URL ELSE TRADIER_LIVE_URL

(* ---------------------------------------------------------------------- *)
(* Outcomes of a call                                                      *)
(* ---------------------------------------------------------------------- *)
Pending == [kind |-> "pending"]

Return(v) == [kind |-> "return", value |-> v]

Raise(exc, msg, line) == [kind |-> "raise", exc |-> exc, msg |-> msg, line |-> line]

Unbound == [t |-> "unbound"]

Response(status_code, text) ==
    [t |-> "Response", status_code |-> status_code, text |-> text]

RequestException == [t |-> "RequestException", text |-> "connection error"]

(* ---------------------------------------------------------------------- *)
(* The transport's JSON decoding (Response.json) on the body texts drawn   *)
(* ---------------------------------------------------------------------- *)
BodyEmpty == ""

BodyNotJson == "<html>Bad Gateway</html>"

BodyFooBar == "{\"foo\": \"bar\"}"

BodyErrorStr == "{\"errors\":{\"error\":\"bad request\"}}"

BodyErrorList == "{\"errors\":{\"error\":[\"a\",\"b\"]}}"

BodyEmptyObj == "{}"

BodyArray == "[1]"

BodyErrorsText == "{\"errors\": \"error here\"}"

Bodies == {BodyEmpty, BodyNotJson, BodyFooBar, BodyErrorStr, BodyErrorList,
           BodyEmptyObj, BodyArray, BodyErrorsText}

\* TRUE when the text is a JSON document; Response.json raises
\* JSONDecodeError on any other text, the empty one included
IsJson(text) == text \notin {BodyEmpty, BodyNotJson}

\* the value json decoding gives for each JSON document drawn
json_loads(text) ==
    CASE text = BodyFooBar     -> PyDict([foo |-> PyStr("bar")])
      [] text = BodyErrorStr   -> PyDict([errors |-> PyDict([error |-> PyStr("bad request")])])
      [] text = BodyErrorList  -> PyDict([errors |-> PyDict([error |-> PyList(<<PyStr("a"), PyStr("b")>>)])])
      [] text = BodyEmptyObj   -> EmptyDict
      [] text = BodyArray      -> PyList(<<PyInt(1)>>)
      [] text = BodyErrorsText -> PyDict([errors |-> PyStr("error here")])

Statuses == {200, 201, 204, 250, 400, 502}

\* what one transport call can do: raise a RequestException or return a response
TransportBehaviours ==
    {RequestException} \cup {Response(s, b) : s \in Statuses, b \in Bodies}

(* ---------------------------------------------------------------------- *)
(* Arguments the caller can pass                                           *)
(* ---------------------------------------------------------------------- *)
Endpoints == {"v1/markets/quotes"}

Methods == {"get", "post", "delete", "put", "GET"}

ParamArgs == {PyNone, EmptyDict, PyDict([symbols |-> PyStr("SPY")])}

DataArgs == {PyNone, EmptyDict, PyDict([class |-> PyStr("equity")])}

HeaderArgs == {PyNone, PyDict([Accept |-> PyStr("text/xml")])}

MaxRetriesArgs == (-1)..MaxRetriesCap

\* marks a keyword argument that the transport call is not given
NotPassed == [t |-> "absent"]

(* ---------------------------------------------------------------------- *)
(* The pieces of request (base.py lines 63-128)                            *)
(* ---------------------------------------------------------------------- *)
\* a defaulting that was forgotten: the argument is kept as given
OrEmptyDict_kept(v) == v

\* lines 75-79: `if not v: v = {}`
OrEmptyDict(v) == IF ~Truthy(v) THEN EmptyDict ELSE v

\* a method check that lets "put" through
ValidMethods_with_put == {"get", "post", "delete", "put"}

\* line 81: the methods request accepts
ValidMethods == {"get", "post", "delete"}

\* a loop condition that does not look at successful
LoopCondition_ignores_success(a, m, s) == a < m

\* an attempt counter that is not advanced
NextAttempt_stuck(a) == a

\* line 87: attempt += 1
NextAttempt(a) == a + 1

\* line 86: the condition of the while loop
LoopCondition(a, m, s) == (a < m) /\ ~s

\* a success test that leaves 200 out
IsSuccessStatus_above_200(status_code) == status_code > 200 /\ status_code < 300

\* a success test that also takes 502 as a success
IsSuccessStatus_with_502(status_code) ==
    (status_code >= 200 /\ status_code < 300) \/ status_code = 502

\* line 96: the status test that sets successful
IsSuccessStatus(status_code) == status_code >= 200 /\ status_code < 300

\* an off-by-one test that also sleeps after the last attempt
AttemptsRemain_inclusive(a, m) == a <= m

\* a test that gives up one attempt early
AttemptsRemain_early(a, m) == a + 1 < m

\* line 101: whether another attempt remains after an unsuccessful one
AttemptsRemain(a, m) == a < m

\* a backoff without the factor 1.5
backoff_seconds_plain(a) == 2 ^ a

\* line 103: 1.5 * (2 ** attempt) seconds; attempt >= 1 here, so the
\* product is a whole number of seconds
backoff_seconds(a) == (3 * (2 ^ a)) \div 2

\* a validation that lets every 2xx status through
AcceptedStatus_any_2xx(status_code) ==
    (status_code >= 200 /\ status_code < 300) \/ status_code = 502

\* line 112: the statuses the validation after the loop lets through
AcceptedStatus(status_code) == status_code \in {200, 201, 502}

\* a transport call that gives the body to post only
TransportCall_body_for_post_only(m, paper, ep, p, h, d) ==
    [verb |-> m,
     url |-> base_url_of(paper) \o "/" \o ep,
     params |-> p,
     headers |-> h,
     data |-> IF m = "post" THEN d ELSE NotPassed]

\* lines 89-94: the call made to requests.get / requests.post / requests.delete
TransportCall(m, paper, ep, p, h, d) ==
    [verb |-> m,
     url |-> base_url_of(paper) \o "/" \o ep,
     params |-> p,
     headers |-> h,
     data |-> IF m = "get" THEN NotPassed ELSE d]

\* line 99
TransportWarning(m, e) == m \o " request failed. Error: " \o e.text

\* line 104
RetryWarning(m, a) ==
    "Retrying " \o m \o " request in " \o ToString(backoff_seconds(a)) \o ".0 seconds."

\* line 82
InvalidMethodError(m) ==
    Raise("ValueError",
          "Invalid method " \o m \o ". Must be one of ['get', 'post', 'delete']", 82)

\* line 107
RequestFailedError(m, mr) ==
    Raise("TradierApiError",
          "Error: " \o m \o " request failed after " \o ToString(mr) \o " attempts.", 107)

\* line 113
StatusError(resp) ==
    Raise("TradierApiError",
          "Error: " \o ToString(resp.status_code) \o " - " \o resp.text, 113)

\* line 112 when the loop body never ran: r is read but was never assigned
UnboundError == Raise("UnboundLocalError", "local variable 'r'", 112)

\* a decoding that falls back to None instead of {}
DecodeBody_none(resp) == IF IsJson(resp.text) THEN json_loads(resp.text) ELSE PyNone

\* lines 116-119: r.json(), with {} when the body is not JSON
DecodeBody(resp) == IF IsJson(resp.text) THEN json_loads(resp.text) ELSE EmptyDict

\* a join with a comma in place of the bar
RECURSIVE JoinBar_comma(_)
JoinBar_comma(items) ==
    IF Len(items) = 0 THEN ""
    ELSE IF Len(items) = 1 THEN items[1].s
    ELSE items[1].s \o ", " \o JoinBar_comma(Tail(items))

\* line 123: " | ".join(items) for a list of str
RECURSIVE JoinBar(_)
JoinBar(items) ==
    IF Len(items) = 0 THEN ""
    ELSE IF Len(items) = 1 THEN items[1].s
    ELSE items[1].s \o " | " \o JoinBar(Tail(items))

AllStr(items) == \A i \in 1..Len(items) : items[i].t = "str"

\* f"{v}" for the values an error field holds in the bodies drawn
Format(v) ==
    CASE v.t = "str"  -> v.s
      [] v.t = "int"  -> ToString(v.n)
      [] v.t = "None" -> "None"

\* lines 122-126: the error raised for the value of errors.error
ApiMessageError(v) ==
    IF v.t = "list"
    THEN IF AllStr(v.items)
         THEN Raise("TradierApiError", "Error: " \o JoinBar(v.items), 126)
         ELSE Raise("TypeError", "sequence item: expected str instance", 123)
    ELSE Raise("TradierApiError", "Error: " \o Format(v), 126)

\* lines 121-128: how request ends for the decoded value ret_data
CheckErrors(ret_data) ==
    IF ~Truthy(ret_data) THEN Return(ret_data)
    ELSE IF Contains("errors", ret_data) = "TypeError"
         THEN Raise("TypeError", "argument is not iterable", 121)
    ELSE IF Contains("errors", ret_data) = "no" THEN Return(ret_data)
    ELSE IF ~CanSubscript(ret_data, "errors")
         THEN Raise("TypeError", "indices must be integers", 121)
    ELSE IF Contains("error", ret_data.m["errors"]) = "TypeError"
         THEN Raise("TypeError", "argument is not iterable", 121)
    ELSE IF Contains("error", ret_data.m["errors"]) = "no" THEN Return(ret_data)
    ELSE IF ~CanSubscript(ret_data.m["errors"], "error")
         THEN Raise("TypeError", "indices must be integers", 122)
    ELSE ApiMessageError(ret_data.m["errors"].m["error"])

(* ---------------------------------------------------------------------- *)
(* Initial state: the instance after __init__ (lines 19-28), no call made  *)
(* ---------------------------------------------------------------------- *)
\* line 63: the default of max_retries
DefaultMaxRetries == 3

Init ==
    /\ \E i \in Instances :
         /\ is_paper = i.is_paper
         /\ ACCOUNT_NUMBER = i.account_number
         /\ AUTH_TOKEN = i.auth_token
    /\ ACCOUNT_NUMBER \in Accounts
    /\ AUTH_TOKEN \in Tokens
    /\ REQUESTS_HEADERS = DefaultHeaders(AUTH_TOKEN)
    /\ pc = "idle"
    /\ op = "none"
    /\ endpoint = ""
    /\ params = PyNone
    /\ headers = PyNone
    /\ data = PyNone
    /\ method = "get"
    /\ max_retries = DefaultMaxRetries
    /\ attempt = 0
    /\ successful = FALSE
    /\ r = Unbound
    /\ calls = << >>
    /\ results = << >>
    /\ sleeps = << >>
    /\ warned = << >>
    /\ outcome = Pending
    /\ url = ""

(* ---------------------------------------------------------------------- *)
(* Operations                                                              *)
(* ---------------------------------------------------------------------- *)
\* request, lines 75-85: the defaults of params and data, the method check
\* and the initialisation of the loop
Enter(o, ep, p, h, d, m, mr) ==
    /\ pc = "idle"
    /\ op' = o
    /\ endpoint' = ep
    /\ params' = OrEmptyDict(p)
    /\ headers' = h
    /\ data' = OrEmptyDict(d)
    /\ method' = m
    /\ max_retries' = mr
    /\ attempt' = 0
    /\ successful' = FALSE
    /\ r' = Unbound
    /\ calls' = << >>
    /\ results' = << >>
    /\ sleeps' = << >>
    /\ warned' = << >>
    /\ IF m \notin ValidMethods
       THEN outcome' = InvalidMethodError(m) /\ pc' = "done"
       ELSE outcome' = Pending /\ pc' = "loop"
    /\ url' = ""
    /\ UNCHANGED instance

\* request(endpoint, params, headers, data, method, max_retries), line 63
request ==
    \E ep \in Endpoints, p \in ParamArgs, h \in HeaderArgs, d \in DataArgs,
       m \in Methods, mr \in MaxRetriesArgs :
        Enter("request", ep, p, h, d, m, mr)

\* send(endpoint, data, headers), lines 130-138
send ==
    \E ep \in Endpoints, d \in DataArgs, h \in HeaderArgs :
        Enter("send", ep, EmptyDict, h, d, "post", DefaultMaxRetries)

\* delete(endpoint, params, headers, data), lines 52-61
delete ==
    \E ep \in Endpoints, p \in ParamArgs, h \in HeaderArgs, d \in DataArgs :
        Enter("delete", ep, p, h, d, "delete", DefaultMaxRetries)

\* base_url(), lines 30-37, called by the user of the instance between
\* two calls of request, send or delete
base_url ==
    /\ pc = "idle"
    /\ url' = base_url_of(is_paper)
    /\ UNCHANGED <<instance, pc, op, locals, logs, outcome>>

\* one iteration of the while loop, lines 86-107: the transport call, the
\* success test, and then either the start of the backoff sleep or the
\* failure after the last attempt
Attempt ==
    /\ pc = "loop"
    /\ LoopCondition(attempt, max_retries, successful)
    /\ \E t \in TransportBehaviours :
        LET a == NextAttempt(attempt)
            raised == t.t = "RequestException"
            ok == IF raised THEN successful
                  ELSE successful \/ IsSuccessStatus(t.status_code)
            w1 == IF raised THEN <<TransportWarning(method, t)>> ELSE << >>
        IN  /\ attempt' = a
            /\ calls' = Append(calls, TransportCall(method, is_paper, endpoint,
                                                    params, headers, data))
            /\ results' = Append(results, IF raised THEN "exception"
                                          ELSE ToString(t.status_code))
            /\ r' = IF raised THEN r ELSE t
            /\ successful' = ok
            /\ IF ok
               THEN /\ pc' = "loop"
                    /\ warned' = warned \o w1
                    /\ UNCHANGED <<sleeps, outcome>>
               ELSE IF AttemptsRemain(a, max_retries)
               THEN /\ pc' = "backoff"
                    /\ warned' = warned \o w1 \o <<RetryWarning(method, a)>>
                    /\ sleeps' = Append(sleeps, backoff_seconds(a))
                    /\ UNCHANGED outcome
               ELSE /\ pc' = "done"
                    /\ warned' = warned \o w1
                    /\ outcome' = RequestFailedError(method, max_retries)
                    /\ UNCHANGED sleeps
    /\ UNCHANGED <<instance, op, endpoint, params, headers, data, method,
                   max_retries, url>>

\* line 105: sleep(backoff_seconds) returns
Sleep ==
    /\ pc = "backoff"
    /\ pc' = "loop"
    /\ UNCHANGED <<instance, op, locals, logs, outcome, url>>

\* lines 86 and 112-113: the loop is left and the status of r is validated
ValidateStatus ==
    /\ pc = "loop"
    /\ ~LoopCondition(attempt, max_retries, successful)
    /\ IF r = Unbound
       THEN outcome' = UnboundError /\ pc' = "done"
       ELSE IF ~AcceptedStatus(r.status_code)
       THEN outcome' = StatusError(r) /\ pc' = "done"
       ELSE outcome' = Pending /\ pc' = "parse"
    /\ UNCHANGED <<instance, op, locals, logs, url>>

\* lines 116-128: decoding of the body, the errors.error check, the return
ParseResponse ==
    /\ pc = "parse"
    /\ outcome' = CheckErrors(DecodeBody(r))
    /\ pc' = "done"
    /\ UNCHANGED <<instance, op, locals, logs, url>>

\* the return or the raise reaches the caller: the frame of request is gone
Unwind ==
    /\ pc = "done"
    /\ pc' = "idle"
    /\ endpoint' = ""
    /\ params' = PyNone
    /\ headers' = PyNone
    /\ data' = PyNone
    /\ method' = "get"
    /\ max_retries' = DefaultMaxRetries
    /\ attempt' = 0
    /\ successful' = FALSE
    /\ r' = Unbound
    /\ calls' = << >>
    /\ results' = << >>
    /\ sleeps' = << >>
    /\ warned' = << >>
    /\ outcome' = Pending
    /\ UNCHANGED <<instance, op, url>>

Next ==
    \/ request
    \/ send
    \/ delete
    \/ base_url
    \/ Attempt
    \/ Sleep
    \/ ValidateStatus
    \/ ParseResponse
    \/ Unwind

Spec == Init /\ [][Next]_vars

\* the scheduling of a synchronous call: every transport call and every
\* sleep returns, and the interpreter goes on with the statement that
\* follows.  The control flow of request reads no field of the instance, so
\* the behaviours are followed for one instance.
\* one instance: the sandbox account
InitSandbox == Init /\ is_paper

FairSpec ==
    /\ InitSandbox
    /\ [][Next]_vars
    /\ WF_vars(Attempt)
    /\ WF_vars(Sleep)
    /\ WF_vars(ValidateStatus)
    /\ WF_vars(ParseResponse)

(* ---------------------------------------------------------------------- *)
(* Vocabulary of the properties                                            *)
(* ---------------------------------------------------------------------- *)
Done == pc = "done"

Raised == outcome.kind = "raise"

Returned == outcome.kind = "return"

\* InvalidArgument: the ValueError of line 82
IsInvalidArgument == Raised /\ outcome.exc = "ValueError"

\* RequestFailed: the TradierApiError of line 107
IsRequestFailed == Raised /\ outcome.exc = "TradierApiError" /\ outcome.line = 107

\* ApiError: the TradierApiError of line 113 or of line 126
IsApiError == Raised /\ outcome.exc = "TradierApiError" /\ outcome.line \in {113, 126}

AllResults(x) == \A i \in DOMAIN results : results[i] = x

HasResponse == r.t = "Response"

(* ---------------------------------------------------------------------- *)
(* Properties                                                              *)
(* ---------------------------------------------------------------------- *)
\* C1: a call whose method is outside {get, post, delete} has failed with
\* ValueError, and no transport call and no sleep has been made by it.
C1_InvalidMethodFailsBeforeTransport ==
    method \notin {"get", "post", "delete"} =>
        /\ Done
        /\ IsInvalidArgument
        /\ Len(calls) = 0
        /\ Len(sleeps) = 0

C1_Witness ==
    /\ Done
    /\ method = "put"
    /\ IsInvalidArgument
    /\ outcome.line = 82

\* C2: with max_retries = 3 and every transport call raising, the call ends
\* only after exactly 3 transport calls, has slept exactly twice, 3 seconds
\* and then 6 seconds, and fails with the TradierApiError "request failed
\* after 3 attempts".
C2_AlwaysRaisingThreeAttempts ==
    (Done /\ method \in {"get", "post", "delete"} /\ max_retries = 3
          /\ AllResults("exception")) =>
        /\ Len(calls) = 3
        /\ sleeps = <<3, 6>>
        /\ IsRequestFailed
        /\ outcome.msg = "Error: " \o method \o " request failed after 3 attempts."

C2_Witness ==
    /\ Done
    /\ max_retries = 3
    /\ results = <<"exception", "exception", "exception">>
    /\ sleeps = <<3, 6>>
    /\ IsRequestFailed

C4_Status400CarriesUpstreamMessage ==
    (Done /\ Len(results) >= 1 /\ AllResults("400")
          /\ HasResponse /\ r.text = BodyErrorStr) =>
        /\ IsApiError
        /\ IsSubstring("bad request", outcome.msg)

\* C5: when the transport returns 502 with a body that is not JSON, the
\* call returns {} and raises nothing.
C5_Status502ReturnsEmpty ==
    (Done /\ Len(results) >= 1 /\ AllResults("502")
          /\ HasResponse /\ r.text = BodyNotJson) =>
        outcome = Return(EmptyDict)

\* C6: every call ends by returning a mapping or by failing with
\* ValueError or TradierApiError, for every method, every max_retries
\* (0 and negative included) and every transport behaviour.
C6_OnlyDeclaredOutcomes ==
    Done =>
        \/ Returned /\ outcome.value.t = "dict"
        \/ IsInvalidArgument
        \/ IsRequestFailed
        \/ IsApiError

\* C7: a response with a status in [200,300) other than 200 and 201 ends
\* the retry loop at that attempt as successful: it is the last transport
\* call, no sleep follows it, and the call then fails with the
\* TradierApiError that carries the status code and the body text.
C7_Other2xxStopsLoopThenFails ==
    \A i \in DOMAIN results :
        results[i] \in {"204", "250"} =>
            /\ i = Len(results)
            /\ Len(calls) = i
            /\ Len(sleeps) = i - 1
            /\ successful
            /\ ToString(r.status_code) = results[i]
            /\ pc \in {"loop", "done"}
            /\ Done => /\ IsApiError
                       /\ outcome.line = 113
                       /\ outcome.msg = "Error: " \o results[i] \o " - " \o r.text

C7_Witness ==
    /\ Done
    /\ results = <<"exception", "204">>
    /\ r = Response(204, BodyFooBar)
    /\ outcome.kind = "raise"
    /\ outcome.msg = "Error: 204 - {\"foo\": \"bar\"}"

\* C8: when the accepted response (200 or 201) decodes to a mapping with
\* errors.error, the call fails with the TradierApiError of line 126 and
\* does not return; its text is "Error: " followed by the message, which
\* is the field's value for a string ("bad request") and the values joined
\* with " | " for a list ("a | b").
C8_EmbeddedErrorRaises ==
    (Done /\ successful /\ HasResponse /\ r.status_code \in {200, 201}) =>
        /\ r.text = BodyErrorStr =>
               /\ IsApiError
               /\ outcome.line = 126
               /\ outcome.msg = "Error: bad request"
        /\ r.text = BodyErrorList =>
               /\ IsApiError
               /\ outcome.line = 126
               /\ outcome.msg = "Error: a | b"

C8_Witness ==
    /\ Done
    /\ r = Response(200, BodyErrorList)
    /\ Raised
    /\ outcome.msg = "Error: a | b"

\* C9: every transport call carries the instance's header
\* Authorization: Bearer <token>, also when the caller passed no headers.
C9_EveryCallCarriesBearerAuth ==
    \A i \in DOMAIN calls :
        /\ calls[i].headers.t = "dict"
        /\ "Authorization" \in DOMAIN calls[i].headers.m
        /\ calls[i].headers.m["Authorization"] = PyStr("Bearer " \o AUTH_TOKEN)

\* C10: when the response that passed the status validation has a body
\* that is not JSON (the empty body included), the call returns {} and
\* does not fail.
C10_UndecodableBodyReturnsEmpty ==
    (Done /\ successful /\ HasResponse /\ r.status_code \in {200, 201}
          /\ r.text \in {BodyEmpty, BodyNotJson}) =>
        outcome = Return(EmptyDict)

C10_Witness ==
    /\ Done
    /\ r = Response(201, BodyEmpty)
    /\ outcome = Return(EmptyDict)

\* C11: base_url returns the sandbox host for an instance built with
\* is_paper true and the live host otherwise, also when it is called after
\* a call of request, send or delete has ended; and no step of any operation changes
\* the mode flag, the credentials or the default header set.
C11_BaseUrlStableInstanceImmutable ==
    /\ [](url # "" => url = IF is_paper THEN "https://sandbox.tradier.com"
                                        ELSE "https://api.tradier.com")
    /\ [](REQUESTS_HEADERS =
            PyDict([Authorization |-> PyStr("Bearer " \o AUTH_TOKEN),
                    Accept |-> PyStr("application/json")]))
    /\ [][/\ is_paper' = is_paper
          /\ ACCOUNT_NUMBER' = ACCOUNT_NUMBER
          /\ AUTH_TOKEN' = AUTH_TOKEN
          /\ REQUESTS_HEADERS' = REQUESTS_HEADERS]_vars

C11_Witness ==
    /\ pc = "idle"
    /\ op = "send"
    /\ ~is_paper
    /\ url = "https://api.tradier.com"

\* the results that count as a successful attempt: a status in [200,300)
SuccessResults == {"200", "201", "204", "250"}

\* C12: send is request with method post, empty query params and
\* max_retries 3, and delete is request with method delete and max_retries
\* 3: the step that enters send or delete leaves exactly the locals that
\* request leaves for these arguments, every transport call they issue is
\* the call request issues for them, and delete forwards its body payload.
C12_SendDeleteAreRequest ==
    /\ []((op = "send" /\ pc # "idle") =>
            /\ method = "post" /\ params = EmptyDict /\ max_retries = 3
            /\ data.t = "dict"
            /\ \A i \in DOMAIN calls :
                 calls[i] = [verb |-> "post",
                             url |-> (IF is_paper THEN TRADIER_SANDBOX_URL
                                      ELSE TRADIER_LIVE_URL) \o "/" \o endpoint,
                             params |-> EmptyDict,
                             headers |-> headers,
                             data |-> data])
    /\ []((op = "delete" /\ pc # "idle") =>
            /\ method = "delete" /\ max_retries = 3
            /\ params.t = "dict" /\ data.t = "dict"
            /\ \A i \in DOMAIN calls :
                 calls[i] = [verb |-> "delete",
                             url |-> (IF is_paper THEN TRADIER_SANDBOX_URL
                                      ELSE TRADIER_LIVE_URL) \o "/" \o endpoint,
                             params |-> params,
                             headers |-> headers,
                             data |-> data])
    /\ [][(pc = "idle" /\ pc' # "idle" /\ op' \in {"send", "delete"}) =>
            /\ pc' = "loop" /\ attempt' = 0 /\ ~successful' /\ r' = Unbound
            /\ calls' = << >> /\ sleeps' = << >> /\ outcome' = Pending
            /\ headers' \in HeaderArgs
            /\ \E d \in DataArgs :
                 data' = IF d \in {PyNone, EmptyDict} THEN EmptyDict ELSE d]_vars

C12_Witness ==
    /\ Done
    /\ op = "delete"
    /\ Len(calls) = 2
    /\ calls[2].verb = "delete"
    /\ calls[2].data = PyDict([class |-> PyStr("equity")])
    /\ Returned

\* C13: in every transport call params is a mapping and, for post and
\* delete, data is a mapping; params or data given as None is replaced by
\* {} when the call is entered, before the first attempt, and None is
\* never forwarded, on the first attempt or on a retry.
C13_NoneNeverForwarded ==
    /\ [](\A i \in DOMAIN calls :
            /\ calls[i].params.t = "dict"
            /\ calls[i].verb \in {"post", "delete"} => calls[i].data.t = "dict"
            /\ calls[i].params # PyNone
            /\ calls[i].data # PyNone)
    /\ [][(pc = "idle" /\ pc' # "idle") =>
            params'.t = "dict" /\ data'.t = "dict"]_vars

C13_Witness ==
    /\ Len(calls) = 2
    /\ calls[2].verb = "post"
    /\ calls[2].params = EmptyDict
    /\ calls[2].data = EmptyDict
    /\ results[1] = "exception"

\* C14: when attempt k is the first that completes without an exception
\* and with a status in [200,300), exactly k transport calls and k-1
\* sleeps are made, and the response that is validated and decoded is the
\* one of attempt k: no earlier attempt was successful and r is the
\* response of the last transport call.
C14_FirstSuccessEndsLoop ==
    \A k \in DOMAIN results :
        results[k] \in SuccessResults =>
            /\ k = Len(results)
            /\ attempt = k
            /\ Len(calls) = k
            /\ Len(sleeps) = k - 1
            /\ \A j \in 1..(k - 1) : results[j] \notin SuccessResults
            /\ HasResponse
            /\ ToString(r.status_code) = results[k]
            /\ pc \in {"loop", "parse", "done"}
            /\ Done => ~IsRequestFailed

C14_Witness ==
    /\ Done
    /\ results = <<"502", "exception", "201">>
    /\ Len(calls) = 3
    /\ sleeps = <<3, 6>>
    /\ r = Response(201, BodyFooBar)
    /\ outcome = Return(PyDict([foo |-> PyStr("bar")]))

\* C15: for max_retries >= 1 the transport calls never exceed
\* max_retries, and a call ends with RequestFailed exactly when all of its
\* max_retries attempts were made and each was unsuccessful.
C15_RequestFailedIffAllFailed ==
    (method \in {"get", "post", "delete"} /\ max_retries >= 1) =>
        /\ Len(calls) <= max_retries
        /\ Len(calls) = Len(results)
        /\ Done =>
             (IsRequestFailed <=>
                 /\ Len(results) = max_retries
                 /\ \A i \in DOMAIN results : results[i] \notin SuccessResults)

C15_Witness ==
    /\ Done
    /\ max_retries = 2
    /\ results = <<"400", "exception">>
    /\ IsRequestFailed

\* C16: the sleep after unsuccessful attempt k lasts 1.5 * 2^k seconds (3,
\* 6, 12, ..., each twice the one before), whatever made the attempt
\* unsuccessful; sleeps follow exactly the unsuccessful attempts k with
\* k < max_retries: none before the first attempt, none after a successful
\* attempt and none after the last attempt.
C16_BackoffSchedule ==
    /\ \A k \in DOMAIN sleeps :
         /\ 2 * sleeps[k] = 3 * (2 ^ k)
         /\ k > 1 => sleeps[k] = 2 * sleeps[k - 1]
         /\ k <= Len(results)
         /\ results[k] \notin SuccessResults
         /\ k < max_retries
    /\ \A k \in DOMAIN results :
         (results[k] \notin SuccessResults /\ k < max_retries) => k \in DOMAIN sleeps

C16_Witness ==
    /\ pc = "backoff"
    /\ max_retries = 3
    /\ results = <<"exception", "502">>
    /\ sleeps = <<3, 6>>

InCall == pc \in {"loop", "backoff", "parse"}

\* the attempts the loop can still make
AttemptsLeft == IF max_retries > attempt THEN max_retries - attempt ELSE 0

\* steps a call under way can still take: two per remaining iteration (the
\* attempt and its sleep), then the validation and the decoding
Variant ==
    CASE pc = "loop" /\ ~successful -> 2 * AttemptsLeft + 2
      [] pc = "loop" /\ successful  -> 2
      [] pc = "backoff"             -> 2 * AttemptsLeft + 3
      [] pc = "parse"               -> 1
      [] OTHER                      -> 0

\* C18: when every transport call and every sleep completes, a call of
\* request reaches its return or its failure; it cannot retry forever:
\* within a call attempt is never reset, each iteration of the loop adds
\* one to it, it stays within max_retries (0 when
\* max_retries is negative), and each step of the call
\* lowers the number of steps that remain.
C18_CallTerminates ==
    /\ InCall ~> Done
    /\ [][InCall => /\ Variant' < Variant
                    /\ attempt' >= attempt
                    /\ Len(calls') > Len(calls) => attempt' = attempt + 1]_vars
    /\ [](InCall => attempt <= (IF max_retries > 0 THEN max_retries ELSE 0))

C18_Witness ==
    /\ Done
    /\ max_retries = 3
    /\ attempt = 3
    /\ results = <<"400", "exception", "502">>
    /\ IsRequestFailed

====
